---- MODULE Spec2Model ----
(***************************************************************************)
(* Model of communes-francaises (src/main.go): the fan-out fetch/aggregate *)
(* pipeline.  main loads the identifier list and the two reference tables, *)
(* a dispatcher goroutine launches one geoAPIGouvFr worker per identifier, *)
(* readCities collects both channels until both are closed, sorts the      *)
(* accumulated records and main writes them out.                           *)
(*                                                                         *)
(* A Go string is modelled as a sequence of one-character strings, so that *)
(* strings.TrimLeft and strconv.ParseInt are computed character by         *)
(* character.                                                              *)
(***************************************************************************)
EXTENDS Integers, Sequences, FiniteSets, TLC

(***************************************************************************)
(* Bounds of the model and constants of the program.                       *)
(***************************************************************************)
\* at most this many identifiers in the listing of a pipeline run
MaxN == 2
\* at most this many ticker firings are recorded in a run
MaxTicks == 1
\* longest accumulated sequence enumerated for the finalizer alone
MaxLen == 3
\* make(chan Commune, 10)
CommuneChCap == 10
\* make(chan error, 2)
ErrorChCap == 2
\* resp.StatusCode == 404
StatusNotFound == 404
\* blockSize of sort.SliceStable: blocks of this size are insertion-sorted
BlockSize == 20

(***************************************************************************)
(* strings and strconv                                                     *)
(***************************************************************************)
Digits == <<"0", "1", "2", "3", "4", "5", "6", "7", "8", "9">>

IsDigit(c) == \E d \in 1..10 : Digits[d] = c

DigitVal(c) == (CHOOSE d \in 1..10 : Digits[d] = c) - 1

\* strings.TrimLeft(s, "0"): s without its leading "0" characters
RECURSIVE TrimLeftZeros(_)
TrimLeftZeros(s) ==
    IF s # <<>> /\ Head(s) = "0" THEN TrimLeftZeros(Tail(s)) ELSE s

RECURSIVE DecimalValue(_, _)
DecimalValue(s, acc) ==
    IF s = <<>> THEN acc ELSE DecimalValue(Tail(s), 10 * acc + DigitVal(Head(s)))

\* strconv.ParseInt(s, 10, 64): an optional sign, then one or more decimal
\* digits; anything else (the empty string included) is an error.  The
\* strings of the model are too short to leave the 64-bit range.
ParseInt(s) ==
    LET signed == s # <<>> /\ Head(s) \in {"+", "-"}
        body   == IF signed THEN Tail(s) ELSE s
        wellFormed == body # <<>> /\ \A k \in 1..Len(body) : IsDigit(body[k])
        mag    == IF wellFormed THEN DecimalValue(body, 0) ELSE 0
    IN  IF wellFormed
        THEN [err |-> FALSE, val |-> IF signed /\ Head(s) = "-" THEN 0 - mag ELSE mag]
        ELSE [err |-> TRUE, val |-> 0]

(***************************************************************************)
(* The comparator of readCities and sort.SliceStable                       *)
(***************************************************************************)
\* strconv.ParseInt(strings.TrimLeft(c.CodesPostaux[0], "0"), 10, 64)
FirstCode(c) == ParseInt(TrimLeftZeros(c.CodesPostaux[1]))

\* a record the comparator cannot rank: no postal code, or a first postal
\* code that does not parse
Malformed(c) == Len(c.CodesPostaux) = 0 \/ FirstCode(c).err

\* the closure given to sort.SliceStable, on the slice d as it is at the
\* call; i and j are Go's indices, counted from 0
Less(d, i, j) ==
    IF Len(d[i + 1].CodesPostaux) = 0 \/ Len(d[j + 1].CodesPostaux) = 0 THEN TRUE
    ELSE IF FirstCode(d[i + 1]).err THEN TRUE
    ELSE IF FirstCode(d[j + 1]).err THEN TRUE
    ELSE FirstCode(d[i + 1]).val < FirstCode(d[j + 1]).val

\* a swap that loses d[i]: both places end with d[j]
SwapOverwrite(d, i, j) == [d EXCEPT ![i + 1] = d[j + 1]]

Swap(d, i, j) == [d EXCEPT ![i + 1] = d[j + 1], ![j + 1] = d[i + 1]]

\* the inner loop of insertionSort: for j := i; j > a && Less(j, j-1); j--
RECURSIVE SiftDown(_, _, _)
SiftDown(d, a, j) ==
    IF j > a /\ Less(d, j, j - 1) THEN SiftDown(Swap(d, j, j - 1), a, j - 1) ELSE d

\* insertionSort(data, a, b), from i on
RECURSIVE InsertionSortFrom(_, _, _, _)
InsertionSortFrom(d, a, b, i) ==
    IF i < b THEN InsertionSortFrom(SiftDown(d, a, i), a, b, i + 1) ELSE d

InsertionSort(d, a, b) == InsertionSortFrom(d, a, b, a + 1)

\* swapRange(data, a, b, n)
RECURSIVE SwapRange(_, _, _, _)
SwapRange(d, a, b, n) ==
    IF n = 0 THEN d ELSE SwapRange(Swap(d, a, b), a + 1, b + 1, n - 1)

\* rotate(data, a, m, b): the loop on i = m-a and j = b-m
RECURSIVE RotateLoop(_, _, _, _)
RotateLoop(d, m, i, j) ==
    IF i = j THEN SwapRange(d, m - i, m, i)
    ELSE IF i > j THEN RotateLoop(SwapRange(d, m - i, m, j), m, i - j, j)
    ELSE RotateLoop(SwapRange(d, m - i, m + j - i, i), m, i, j - i)

Rotate(d, a, m, b) == RotateLoop(d, m, m - a, b - m)

\* for k := from; k < to; k++ { Swap(k, k+1) }
RECURSIVE BubbleUp(_, _, _)
BubbleUp(d, k, to) == IF k < to THEN BubbleUp(Swap(d, k, k + 1), k + 1, to) ELSE d

\* for k := from; k > to; k-- { Swap(k, k-1) }
RECURSIVE BubbleDown(_, _, _)
BubbleDown(d, k, to) == IF k > to THEN BubbleDown(Swap(d, k, k - 1), k - 1, to) ELSE d

\* symMerge, m-a = 1: lowest index i of [m, b) with !Less(i, a)
RECURSIVE SearchHigh(_, _, _, _)
SearchHigh(d, a, i, j) ==
    IF i < j
    THEN LET h == (i + j) \div 2
         IN  IF Less(d, h, a) THEN SearchHigh(d, a, h + 1, j) ELSE SearchHigh(d, a, i, h)
    ELSE i

\* symMerge, b-m = 1: lowest index i of [a, m) with Less(m, i)
RECURSIVE SearchLow(_, _, _, _)
SearchLow(d, m, i, j) ==
    IF i < j
    THEN LET h == (i + j) \div 2
         IN  IF ~Less(d, m, h) THEN SearchLow(d, m, h + 1, j) ELSE SearchLow(d, m, i, h)
    ELSE i

\* symMerge, general case: the binary search on start and r with p = n-1
RECURSIVE SearchSym(_, _, _, _)
SearchSym(d, p, start, r) ==
    IF start < r
    THEN LET c == (start + r) \div 2
         IN  IF ~Less(d, p - c, c) THEN SearchSym(d, p, c + 1, r)
             ELSE SearchSym(d, p, start, c)
    ELSE start

\* symMerge(data, a, m, b): merges the sorted runs [a, m) and [m, b)
RECURSIVE SymMerge(_, _, _, _)
SymMerge(d, a, m, b) ==
    IF m - a = 1 THEN BubbleUp(d, a, SearchHigh(d, a, m, b) - 1)
    ELSE IF b - m = 1 THEN BubbleDown(d, m, SearchLow(d, m, a, m))
    ELSE LET mid   == (a + b) \div 2
             n     == mid + m
             start == IF m > mid THEN SearchSym(d, n - 1, n - b, mid)
                      ELSE SearchSym(d, n - 1, a, m)
             end   == n - start
             d1    == IF start < m /\ m < end THEN Rotate(d, start, m, end) ELSE d
             d2    == IF a < start /\ start < mid THEN SymMerge(d1, a, start, mid) ELSE d1
         IN  IF mid < end /\ end < b THEN SymMerge(d2, mid, end, b) ELSE d2

\* stable: the first loop, insertion sort of each block of blockSize
RECURSIVE SortBlocks(_, _, _, _)
SortBlocks(d, n, a, b) ==
    IF b <= n THEN SortBlocks(InsertionSort(d, a, b), n, b, b + BlockSize)
    ELSE InsertionSort(d, a, n)

\* stable: one pass of merges of neighbouring blocks of size bs
RECURSIVE MergePass(_, _, _, _, _)
MergePass(d, n, bs, a, b) ==
    IF b <= n THEN MergePass(SymMerge(d, a, a + bs, b), n, bs, b, b + 2 * bs)
    ELSE IF a + bs < n THEN SymMerge(d, a, a + bs, n) ELSE d

\* stable: the passes, the block size doubling
RECURSIVE MergePasses(_, _, _)
MergePasses(d, n, bs) ==
    IF bs < n THEN MergePasses(MergePass(d, n, bs, 0, 2 * bs), n, 2 * bs) ELSE d

\* sort.SliceStable(communes, less)
SliceStable(d) == MergePasses(SortBlocks(d, Len(d), 0, BlockSize), Len(d), BlockSize)

(***************************************************************************)
(* Data: identifiers, reference tables, detail-lookup responses            *)
(***************************************************************************)
\* the code of the i-th entry of the listing: the string "c<i>", i in two
\* decimal digits
Code(i) == <<"c", Digits[(i \div 10) + 1], Digits[(i % 10) + 1]>>

\* Commune{}: the zero value
ZeroCommune ==
    [Nom |-> <<>>, Departement |-> <<>>, Region |-> <<>>, CodesPostaux |-> <<>>,
     Location |-> [Type |-> <<>>, Coordinates |-> <<>>]]

\* CommuneResponse{}: the zero value (the fields geoAPIGouvFr reads)
ZeroResponse ==
    [Nom |-> <<>>, CodesPostaux |-> <<>>, CodeDepartement |-> <<>>,
     CodeRegion |-> <<>>, Coordinates |-> <<>>]

\* the tables fetchDepartements and fetchRegions can return
DepartementTables == { << [Nom |-> <<"P">>, Code |-> <<"7", "5">>] >> }

RegionTables == { << [Nom |-> <<"I">>, Code |-> <<"1", "1">>] >> }

\* what one detail lookup can bring back: the error of http.Get, the status,
\* the error of ioutil.ReadAll, whether the body decodes, and the decoded
\* value
HttpResult(err, status, readErr, decodeErr, cs) ==
    [err |-> err, status |-> status, readErr |-> readErr,
     decodeErr |-> decodeErr, cs |-> cs]

\* a decoded detail document of identifier code with the postal codes cp and
\* the centroid coords
Detail(code, cp, coords) ==
    [Nom |-> code, CodesPostaux |-> cp, CodeDepartement |-> <<"7", "5">>,
     CodeRegion |-> <<"1", "1">>, Coordinates |-> coords]

\* the lookups that end without a decoded document
FailedLookups ==
    { HttpResult(TRUE, 0, FALSE, FALSE, ZeroResponse),
      HttpResult(FALSE, StatusNotFound, FALSE, FALSE, ZeroResponse),
      HttpResult(FALSE, 200, TRUE, FALSE, ZeroResponse),
      HttpResult(FALSE, 200, FALSE, TRUE, ZeroResponse) }

\* the postal-code lists of the pipeline runs: none, "01", "2"
PipelineCodes == { <<>>, << <<"0", "1">> >>, << <<"2">> >> }

\* the centroid [lon, lat] of a well-formed document
Centre == <<2, 48>>

\* the lookups of identifier code that decode: the well-formed documents, a
\* server error (status 500) whose JSON body has none of the fields, and a
\* document whose coordinate list has a single element
DecodedLookups(code) ==
    { HttpResult(FALSE, 200, FALSE, FALSE, Detail(code, cp, Centre)) : cp \in PipelineCodes }
    \cup { HttpResult(FALSE, 500, FALSE, FALSE, ZeroResponse),
           HttpResult(FALSE, 200, FALSE, FALSE, Detail(code, <<>>, <<2>>)) }

Responses(code) == FailedLookups \cup DecodedLookups(code)

\* no lookup has returned yet
NoResponse == HttpResult(FALSE, 0, FALSE, FALSE, ZeroResponse)

(***************************************************************************)
(* geoAPIGouvFr: from the lookup's result to the worker's message          *)
(***************************************************************************)
\* for _, e := range table { if e.Code == code { nom = e.Nom } }
RECURSIVE ScanTable(_, _, _)
ScanTable(table, code, nom) ==
    IF table = <<>> THEN nom
    ELSE ScanTable(Tail(table), code, IF Head(table).Code = code THEN Head(table).Nom ELSE nom)

\* fmt.Errorf("%s", codeInsee)
Errorf(codeInsee) == [msg |-> codeInsee]

\* the lookup fails: lines 148, 154 and 159
LookupFails(r) ==
    \/ r.err \/ r.status = StatusNotFound
    \/ r.readErr
    \/ r.decodeErr

\* cs.Geometry.Coordinates[1] is read out of range: a run-time panic
IndexPanics(r) == Len(r.cs.Coordinates) > 0 /\ Len(r.cs.Coordinates) < 2

\* a Commune whose coordinates are copied in the order of the source, without
\* the exchange of lines 184-185
BuildCommuneUnswapped(r, deps, regs) ==
    [Nom |-> r.cs.Nom,
     Departement |-> IF r.cs.CodeDepartement # <<>>
                     THEN ScanTable(deps, r.cs.CodeDepartement, <<>>) ELSE <<>>,
     Region |-> IF r.cs.CodeRegion # <<>>
                THEN ScanTable(regs, r.cs.CodeRegion, <<>>) ELSE <<>>,
     CodesPostaux |-> IF Len(r.cs.CodesPostaux) > 0 THEN r.cs.CodesPostaux ELSE <<>>,
     Location |-> IF Len(r.cs.Coordinates) > 0
                  THEN [Type |-> <<"P", "o", "i", "n", "t">>,
                        Coordinates |-> <<r.cs.Coordinates[1], r.cs.Coordinates[2]>>]
                  ELSE [Type |-> <<>>, Coordinates |-> <<>>]]

\* the Commune built at lines 163-186
BuildCommune(r, deps, regs) ==
    [Nom |-> r.cs.Nom,
     Departement |-> IF r.cs.CodeDepartement # <<>>
                     THEN ScanTable(deps, r.cs.CodeDepartement, <<>>) ELSE <<>>,
     Region |-> IF r.cs.CodeRegion # <<>>
                THEN ScanTable(regs, r.cs.CodeRegion, <<>>) ELSE <<>>,
     CodesPostaux |-> IF Len(r.cs.CodesPostaux) > 0 THEN r.cs.CodesPostaux ELSE <<>>,
     Location |-> IF Len(r.cs.Coordinates) > 0
                  THEN [Type |-> <<"P", "o", "i", "n", "t">>,
                        Coordinates |-> <<r.cs.Coordinates[2], r.cs.Coordinates[1]>>]
                  ELSE [Type |-> <<>>, Coordinates |-> <<>>]]

(***************************************************************************)
(* State                                                                   *)
(***************************************************************************)
VARIABLES
    exit,          \* "running", or how the process ended: "ok", "fatal", "panic"
    pcMain,        \* where main is
    insees,        \* the listing fetchCodeInsee returned
    departements,  \* the table fetchDepartements returned
    regions,       \* the table fetchRegions returned
    loadErr,       \* the loads that returned a non-nil err
    dpc,           \* where the dispatcher goroutine is
    dnext,         \* the index of the next identifier its loop launches
    wg,            \* the counter of the WaitGroup
    pc,            \* where each worker is
    resp,          \* what each worker's http.Get and decoding brought back
    sent,          \* how many messages each worker has sent on each channel
    emitted,       \* the messages each worker has sent, in order
    communeCh,     \* the buffer of communeCh
    errorCh,       \* the buffer of errorCh
    communeClosed, \* how many times communeCh was closed
    errorClosed,   \* how many times errorCh was closed
    communeNil,    \* readCities has set its communeCh to nil
    errorNil,      \* readCities has set its errorCh to nil
    communes,      \* readCities' accumulator
    communeCounter,\* readCities' counter
    errorLog,      \* the lines of log-errors.txt
    progress,      \* the counts the ticker case printed
    outFile        \* the output file: <<>> or <<the array written>>

vars == <<exit, pcMain, insees, departements, regions, loadErr, dpc, dnext, wg, pc,
          resp, sent, emitted,
          communeCh, errorCh, communeClosed, errorClosed, communeNil, errorNil,
          communes, communeCounter, errorLog, progress, outFile>>

mainVars == <<pcMain, insees, departements, regions, loadErr>>
dispVars == <<dpc, dnext>>
chanVars == <<communeCh, errorCh, communeClosed, errorClosed>>
collVars == <<communeNil, errorNil, communes, communeCounter, errorLog, progress>>

N == Len(insees)

Init ==
    /\ exit = "running"
    /\ pcMain = "fetchCodeInsee"
    /\ insees = <<>>
    /\ departements = <<>>
    /\ regions = <<>>
    /\ loadErr = {}
    /\ dpc = "notStarted"
    /\ dnext = 1
    /\ wg = 0
    /\ pc = <<>>
    /\ resp = <<>>
    /\ sent = <<>>
    /\ emitted = <<>>
    /\ communeCh = <<>>
    /\ errorCh = <<>>
    /\ communeClosed = 0
    /\ errorClosed = 0
    /\ communeNil = FALSE
    /\ errorNil = FALSE
    /\ communes = <<>>
    /\ communeCounter = 0
    /\ errorLog = <<>>
    /\ progress = <<>>
    /\ outFile = <<>>

(***************************************************************************)
(* main and communesWorker: the three loads, then the dispatcher           *)
(***************************************************************************)
\* a load returns a non-nil err and log.Fatalln ends the process with
\* status 1
LoadFails(load) ==
    /\ loadErr' = loadErr \cup {load}
    /\ exit' = "fatal"
    /\ UNCHANGED <<pcMain, insees, departements, regions, dispVars, wg, pc, resp,
                   sent, emitted, chanVars, collVars, outFile>>

\* fetchCodeInsee and the test of its error (lines 118-121)
FetchCodeInsee ==
    /\ exit = "running" /\ pcMain = "fetchCodeInsee"
    /\ \/ LoadFails("fetchCodeInsee")
       \/ \E n \in 0..MaxN :
            /\ insees' = [i \in 1..n |-> Code(i)]
            /\ pc' = [i \in 1..n |-> "idle"]
            /\ resp' = [i \in 1..n |-> NoResponse]
            /\ sent' = [i \in 1..n |-> [commune |-> 0, error |-> 0]]
            /\ emitted' = [i \in 1..n |-> <<>>]
            /\ pcMain' = "fetchDepartements"
            /\ UNCHANGED <<exit, departements, regions, loadErr, dispVars, wg,
                           chanVars, collVars, outFile>>

\* fetchDepartements and the test of its error (lines 122-125)
FetchDepartements ==
    /\ exit = "running" /\ pcMain = "fetchDepartements"
    /\ \/ LoadFails("fetchDepartements")
       \/ \E t \in DepartementTables :
            /\ departements' = t
            /\ pcMain' = "fetchRegions"
            /\ UNCHANGED <<exit, insees, regions, loadErr, dispVars, wg, pc, resp,
                           sent, emitted, chanVars, collVars, outFile>>

\* fetchRegions returns the table t: go func() starts the dispatcher and
\* communesWorker returns into main, which calls readCities
StartDispatcher(t) ==
    /\ regions' = t
    /\ pcMain' = "readCities"
    /\ dpc' = "loop"

\* a fetchRegions whose error is not tested: with the empty table of the
\* failed fetch the dispatcher starts all the same
FetchRegionsUnchecked ==
    /\ exit = "running" /\ pcMain = "fetchRegions"
    /\ \/ /\ loadErr' = loadErr \cup {"fetchRegions"}
          /\ StartDispatcher(<<>>)
       \/ /\ \E t \in RegionTables : StartDispatcher(t)
          /\ UNCHANGED loadErr
    /\ UNCHANGED <<exit, insees, departements, dnext, wg, pc, resp, sent, emitted,
                   chanVars, collVars, outFile>>

\* fetchRegions and the test of its error, then go func() and the return
\* into main (lines 126-141, 64-65)
FetchRegions ==
    /\ exit = "running" /\ pcMain = "fetchRegions"
    /\ \/ LoadFails("fetchRegions")
       \/ /\ \E t \in RegionTables : StartDispatcher(t)
          /\ UNCHANGED <<exit, insees, departements, loadErr, dnext, wg, pc, resp,
                         sent, emitted, chanVars, collVars, outFile>>

(***************************************************************************)
(* The dispatcher goroutine (lines 130-140)                                *)
(***************************************************************************)
\* one turn of the loop: sleeping(), wg.Add(1), go geoAPIGouvFr(...)
Launch ==
    /\ exit = "running" /\ dpc = "loop" /\ dnext <= N
    /\ wg' = wg + 1
    /\ pc' = [pc EXCEPT ![dnext] = "get"]
    /\ dnext' = dnext + 1
    /\ UNCHANGED <<exit, mainVars, dpc, resp, sent, emitted, chanVars, collVars, outFile>>

\* a dispatcher that goes on to the closes without the wg.Wait() of line 137
WgWaitNoBarrier ==
    /\ exit = "running" /\ dpc = "loop" /\ dnext > N
    /\ dpc' = "closeErrorCh"
    /\ UNCHANGED <<exit, mainVars, dnext, wg, pc, resp, sent, emitted, chanVars, collVars, outFile>>

\* the loop is over and wg.Wait() returns: the counter is zero
WgWait ==
    /\ exit = "running" /\ dpc = "loop" /\ dnext > N
    /\ wg = 0
    /\ dpc' = "closeErrorCh"
    /\ UNCHANGED <<exit, mainVars, dnext, wg, pc, resp, sent, emitted, chanVars, collVars, outFile>>

\* close(errorCh)
CloseErrorCh ==
    /\ exit = "running" /\ dpc = "closeErrorCh"
    /\ errorClosed' = errorClosed + 1
    /\ dpc' = "closeCommuneCh"
    /\ UNCHANGED <<exit, mainVars, dnext, wg, pc, resp, sent, emitted, communeCh, errorCh,
                   communeClosed, collVars, outFile>>

\* close(communeCh), the end of the goroutine
CloseCommuneCh ==
    /\ exit = "running" /\ dpc = "closeCommuneCh"
    /\ communeClosed' = communeClosed + 1
    /\ dpc' = "done"
    /\ UNCHANGED <<exit, mainVars, dnext, wg, pc, resp, sent, emitted, communeCh, errorCh,
                   errorClosed, collVars, outFile>>

(***************************************************************************)
(* A worker: geoAPIGouvFr (lines 144-188)                                  *)
(***************************************************************************)
\* where the worker goes once its lookup has returned r: to the send of a
\* Failure, to the send of the Commune, or into the panic of line 184
AfterLookup(r) ==
    IF LookupFails(r) THEN "sendError"
    ELSE IF IndexPanics(r) THEN "panicking"
    ELSE "sendCommune"

\* http.Get returns one of the results rs, and the worker runs up to its
\* send.  A panic runs the deferred calls (wg.Done) before the runtime ends
\* the process.
HttpGetFrom(i, rs) ==
    /\ exit = "running" /\ pc[i] = "get"
    /\ \E r \in rs :
         /\ resp' = [resp EXCEPT ![i] = r]
         /\ pc' = [pc EXCEPT ![i] = AfterLookup(r)]
         /\ wg' = IF AfterLookup(r) = "panicking" THEN wg - 1 ELSE wg
    /\ UNCHANGED <<exit, mainVars, dispVars, sent, emitted, chanVars, collVars, outFile>>

HttpGet(i) == HttpGetFrom(i, Responses(insees[i]))

\* errorCh <- fmt.Errorf("%s", codeInsee): blocks while the buffer is full,
\* panics on a closed channel
SendError(i) ==
    /\ exit = "running" /\ pc[i] = "sendError"
    /\ IF errorClosed > 0
       THEN /\ pc' = [pc EXCEPT ![i] = "panicking"]
            /\ wg' = wg - 1
            /\ UNCHANGED <<errorCh, sent, emitted>>
       ELSE /\ Len(errorCh) < ErrorChCap
            /\ errorCh' = Append(errorCh, Errorf(insees[i]))
            /\ sent' = [sent EXCEPT ![i].error = @ + 1]
            /\ emitted' = [emitted EXCEPT ![i] = Append(@, Errorf(insees[i]))]
            /\ pc' = [pc EXCEPT ![i] = "return"]
            /\ UNCHANGED wg
    /\ UNCHANGED <<exit, mainVars, dispVars, resp, communeCh, communeClosed,
                   errorClosed, collVars, outFile>>

\* a worker that builds its Commune from the response of the last worker
\* launched, as if cs were one variable shared by the goroutines
SendCommuneShared(i) ==
    /\ exit = "running" /\ pc[i] = "sendCommune"
    /\ IF communeClosed > 0
       THEN /\ pc' = [pc EXCEPT ![i] = "panicking"]
            /\ wg' = wg - 1
            /\ UNCHANGED <<communeCh, sent, emitted>>
       ELSE /\ Len(communeCh) < CommuneChCap
            /\ communeCh' = Append(communeCh,
                                   BuildCommune(resp[dnext - 1], departements, regions))
            /\ sent' = [sent EXCEPT ![i].commune = @ + 1]
            /\ emitted' = [emitted EXCEPT ![i] =
                               Append(@, BuildCommune(resp[dnext - 1], departements, regions))]
            /\ pc' = [pc EXCEPT ![i] = "return"]
            /\ UNCHANGED wg
    /\ UNCHANGED <<exit, mainVars, dispVars, resp, errorCh, communeClosed,
                   errorClosed, collVars, outFile>>

\* communeCh <- c
SendCommune(i) ==
    /\ exit = "running" /\ pc[i] = "sendCommune"
    /\ IF communeClosed > 0
       THEN /\ pc' = [pc EXCEPT ![i] = "panicking"]
            /\ wg' = wg - 1
            /\ UNCHANGED <<communeCh, sent, emitted>>
       ELSE /\ Len(communeCh) < CommuneChCap
            /\ communeCh' = Append(communeCh, BuildCommune(resp[i], departements, regions))
            /\ sent' = [sent EXCEPT ![i].commune = @ + 1]
            /\ emitted' = [emitted EXCEPT ![i] =
                               Append(@, BuildCommune(resp[i], departements, regions))]
            /\ pc' = [pc EXCEPT ![i] = "return"]
            /\ UNCHANGED wg
    /\ UNCHANGED <<exit, mainVars, dispVars, resp, errorCh, communeClosed,
                   errorClosed, collVars, outFile>>

\* the return after the send: the deferred wg.Done()
WgDone(i) ==
    /\ exit = "running" /\ pc[i] = "return"
    /\ wg' = wg - 1
    /\ pc' = [pc EXCEPT ![i] = "done"]
    /\ UNCHANGED <<exit, mainVars, dispVars, resp, sent, emitted, chanVars, collVars, outFile>>

\* an unrecovered panic of a goroutine ends the process with status 2
Crash ==
    /\ exit = "running"
    /\ \E i \in 1..N : pc[i] = "panicking"
    /\ exit' = "panic"
    /\ UNCHANGED <<mainVars, dispVars, wg, pc, resp, sent, emitted, chanVars, collVars, outFile>>

(***************************************************************************)
(* The collector: readCities (lines 190-231) and logErrors (lines 251-263) *)
(***************************************************************************)
\* er.Error() + "\n": one line of the log
LogLine(er) == er.msg

\* how a call of logErrors can go: the file opens and the line reaches it;
\* os.OpenFile fails (log.Fatalf); the line stays in the bufio.Writer
\* because Flush fails, an error the code does not look at
LogOutcomes == {"written", "openFails", "flushFails"}

\* case commune, ok := <-communeCh, with ok
RecvCommune ==
    /\ exit = "running" /\ pcMain = "readCities"
    /\ ~communeNil /\ communeCh # <<>>
    /\ communes' = Append(communes, Head(communeCh))
    /\ communeCounter' = communeCounter + 1
    /\ communeCh' = Tail(communeCh)
    /\ UNCHANGED <<exit, mainVars, dispVars, wg, pc, resp, sent, emitted, errorCh, communeClosed,
                   errorClosed, communeNil, errorNil, errorLog, progress, outFile>>

\* case commune, ok := <-communeCh, with !ok: closed and drained
RecvCommuneClosed ==
    /\ exit = "running" /\ pcMain = "readCities"
    /\ ~communeNil /\ communeCh = <<>> /\ communeClosed > 0
    /\ communeNil' = TRUE
    /\ UNCHANGED <<exit, mainVars, dispVars, wg, pc, resp, sent, emitted, chanVars, errorNil,
                   communes, communeCounter, errorLog, progress, outFile>>

\* case err, ok := <-errorCh, with ok: logErrors(err), which goes one of
\* the ways of outcomes
RecvErrorWith(outcomes) ==
    /\ exit = "running" /\ pcMain = "readCities"
    /\ ~errorNil /\ errorCh # <<>>
    /\ errorCh' = Tail(errorCh)
    /\ \E o \in outcomes :
         /\ exit' = IF o = "openFails" THEN "fatal" ELSE exit
         /\ errorLog' = IF o = "written" THEN Append(errorLog, LogLine(Head(errorCh)))
                        ELSE errorLog
    /\ UNCHANGED <<mainVars, dispVars, wg, pc, resp, sent, emitted, communeCh, communeClosed,
                   errorClosed, communeNil, errorNil, communes, communeCounter,
                   progress, outFile>>

RecvError == RecvErrorWith(LogOutcomes)

\* case err, ok := <-errorCh, with !ok
RecvErrorClosed ==
    /\ exit = "running" /\ pcMain = "readCities"
    /\ ~errorNil /\ errorCh = <<>> /\ errorClosed > 0
    /\ errorNil' = TRUE
    /\ UNCHANGED <<exit, mainVars, dispVars, wg, pc, resp, sent, emitted, chanVars, communeNil,
                   communes, communeCounter, errorLog, progress, outFile>>

\* case <-ticker.C: the count so far is printed
Tick ==
    /\ exit = "running" /\ pcMain = "readCities"
    /\ ~(communeNil /\ errorNil)
    /\ Len(progress) < MaxTicks
    /\ progress' = Append(progress, communeCounter)
    /\ UNCHANGED <<exit, mainVars, dispVars, wg, pc, resp, sent, emitted, chanVars, communeNil,
                   errorNil, communes, communeCounter, errorLog, outFile>>

\* a loop that ends as soon as one of the two channels is nil (&& in place
\* of the || of line 194)
ReadCitiesReturnEither ==
    /\ exit = "running" /\ pcMain = "readCities"
    /\ communeNil \/ errorNil
    /\ communes' = SliceStable(communes)
    /\ pcMain' = "writeIntoJSON"
    /\ UNCHANGED <<exit, insees, departements, regions, loadErr, dispVars, wg, pc,
                   resp, sent, emitted, chanVars, communeNil, errorNil, communeCounter,
                   errorLog, progress, outFile>>

\* the loop ends, ticker.Stop(), sort.SliceStable, return into main
ReadCitiesReturn ==
    /\ exit = "running" /\ pcMain = "readCities"
    /\ communeNil /\ errorNil
    /\ communes' = SliceStable(communes)
    /\ pcMain' = "writeIntoJSON"
    /\ UNCHANGED <<exit, insees, departements, regions, loadErr, dispVars, wg, pc,
                   resp, sent, emitted, chanVars, communeNil, errorNil, communeCounter,
                   errorLog, progress, outFile>>

\* writeIntoJSON (lines 233-243), then main returns: ioutil.WriteFile fails
\* (log.Fatalln) or the array is written
WriteIntoJSON ==
    /\ exit = "running" /\ pcMain = "writeIntoJSON"
    /\ \/ /\ exit' = "fatal"
          /\ UNCHANGED <<mainVars, dispVars, wg, pc, resp, sent, emitted, chanVars, collVars,
                         outFile>>
       \/ /\ outFile' = <<communes>>
          /\ pcMain' = "done"
          /\ exit' = "ok"
          /\ UNCHANGED <<insees, departements, regions, loadErr, dispVars, wg, pc,
                         resp, sent, emitted, chanVars, collVars>>

(***************************************************************************)
(* The pipeline                                                            *)
(***************************************************************************)
Worker(i) == HttpGet(i) \/ SendError(i) \/ SendCommune(i) \/ WgDone(i)

Next ==
    \/ FetchCodeInsee \/ FetchDepartements \/ FetchRegions
    \/ Launch \/ WgWait \/ CloseErrorCh \/ CloseCommuneCh
    \/ \E i \in 1..N : Worker(i)
    \/ Crash
    \/ RecvCommune \/ RecvCommuneClosed \/ RecvError \/ RecvErrorClosed \/ Tick
    \/ ReadCitiesReturn \/ WriteIntoJSON

Spec == Init /\ [][Next]_vars

(***************************************************************************)
(* The pipeline when every write to the error log succeeds, under fair     *)
(* scheduling: every goroutine that can take a step eventually takes one,  *)
(* and every http.Get eventually returns.                                  *)
(***************************************************************************)
RecvErrorWritten == RecvErrorWith({"written"})

LiveNext ==
    \/ FetchCodeInsee \/ FetchDepartements \/ FetchRegions
    \/ Launch \/ WgWait \/ CloseErrorCh \/ CloseCommuneCh
    \/ \E i \in 1..N : Worker(i)
    \/ Crash
    \/ RecvCommune \/ RecvCommuneClosed \/ RecvErrorWritten \/ RecvErrorClosed \/ Tick
    \/ ReadCitiesReturn \/ WriteIntoJSON

Fairness ==
    /\ WF_vars(FetchCodeInsee \/ FetchDepartements \/ FetchRegions)
    /\ WF_vars(Launch \/ WgWait \/ CloseErrorCh \/ CloseCommuneCh)
    /\ \A i \in 1..MaxN : WF_vars(i <= N /\ Worker(i))
    /\ WF_vars(Crash)
    /\ WF_vars(RecvCommune \/ RecvCommuneClosed \/ RecvErrorWritten \/ RecvErrorClosed)
    /\ WF_vars(ReadCitiesReturn \/ WriteIntoJSON)

LiveSpec == Init /\ [][LiveNext]_vars /\ Fairness

(***************************************************************************)
(* The finalizer alone: readCities at the end of its loop, on every        *)
(* accumulated sequence of a bounded set                                   *)
(***************************************************************************)
\* the first postal codes of the finalizer's inputs: none, "x", "0", "01",
\* "2", "10"
SortCodes ==
    { <<>>, << <<"x">> >>, << <<"0">> >>, << <<"0", "1">> >>, << <<"2">> >>,
      << <<"1", "0">> >> }

\* the numeric ones among them
NumericCodes == { << <<"0", "1">> >>, << <<"2">> >>, << <<"1", "0">> >> }

\* the accumulated sequences of at most MaxLen records
ShortInputs == UNION { [1..n -> SortCodes] : n \in 0..MaxLen }

\* accumulated sequences longer than one block of sort.SliceStable: nine
\* records of code a, one without a code, ten of code b, one of code c
LongInputs ==
    { [i \in 1..(BlockSize + 1) |->
         IF i <= 9 THEN a ELSE IF i = 10 THEN <<>> ELSE IF i <= BlockSize THEN b ELSE c]
      : a \in NumericCodes, b \in NumericCodes, c \in NumericCodes }

\* readCities has received everything: the i-th record received is the one
\* built from a well-formed document of identifier i with postal codes cps[i]
SortInit ==
    \E cps \in ShortInputs \cup LongInputs :
      LET n == Len(cps)
          docs == [i \in 1..n |->
                     HttpResult(FALSE, 200, FALSE, FALSE, Detail(Code(i), cps[i], Centre))]
      IN
      /\ exit = "running"
      /\ pcMain = "readCities"
      /\ insees = [i \in 1..n |-> Code(i)]
      /\ departements \in DepartementTables
      /\ regions \in RegionTables
      /\ loadErr = {}
      /\ dpc = "done"
      /\ dnext = n + 1
      /\ wg = 0
      /\ pc = [i \in 1..n |-> "done"]
      /\ resp = docs
      /\ sent = [i \in 1..n |-> [commune |-> 1, error |-> 0]]
      /\ emitted = [i \in 1..n |-> <<BuildCommune(docs[i], departements, regions)>>]
      /\ communeCh = <<>>
      /\ errorCh = <<>>
      /\ communeClosed = 1
      /\ errorClosed = 1
      /\ communeNil = TRUE
      /\ errorNil = TRUE
      /\ communes = [i \in 1..n |-> BuildCommune(docs[i], departements, regions)]
      /\ communeCounter = n
      /\ errorLog = <<>>
      /\ progress = <<>>
      /\ outFile = <<>>

SortNext == ReadCitiesReturn \/ WriteIntoJSON

SortSpec == SortInit /\ [][SortNext]_vars

(***************************************************************************)
(* One worker alone: geoAPIGouvFr (lines 144-188) over every shape of the  *)
(* reference tables and of the decoded document                            *)
(***************************************************************************)
\* department tables: empty, the entry of code "75", two entries of code
\* "75", an entry of another code before the entry of code "75"
WideDepartementTables ==
    { <<>>,
      << [Nom |-> <<"P">>, Code |-> <<"7", "5">>] >>,
      << [Nom |-> <<"P">>, Code |-> <<"7", "5">>], [Nom |-> <<"Q">>, Code |-> <<"7", "5">>] >>,
      << [Nom |-> <<"X">>, Code |-> <<"0", "1">>], [Nom |-> <<"P">>, Code |-> <<"7", "5">>] >> }

\* region tables: empty, the entry of code "11", the entry of code "11"
\* followed by an entry of another code
WideRegionTables ==
    { <<>>,
      << [Nom |-> <<"I">>, Code |-> <<"1", "1">>] >>,
      << [Nom |-> <<"I">>, Code |-> <<"1", "1">>], [Nom |-> <<"B">>, Code |-> <<"5", "3">>] >> }

\* the codeDepartement and codeRegion of a document: none, one the tables
\* have, one they do not have
DepartementCodes == { <<>>, <<"7", "5">>, <<"9", "9">> }

RegionCodes == { <<>>, <<"1", "1">>, <<"9", "9">> }

\* geometry.coordinates: of 0, 1, 2 and 3 elements
CoordinateLists == { <<>>, <<2>>, <<2, 48>>, <<48, 2>>, <<2, 48, 7>> }

\* the documents a lookup of the first identifier can decode
EnrichDocuments ==
    { [Nom |-> Code(1), CodesPostaux |-> cp, CodeDepartement |-> dep,
       CodeRegion |-> reg, Coordinates |-> coords] :
        cp \in { <<>>, << <<"0", "1">> >> }, dep \in DepartementCodes,
        reg \in RegionCodes, coords \in CoordinateLists }

EnrichResponses ==
    FailedLookups
    \cup { HttpResult(FALSE, 200, FALSE, FALSE, cs) : cs \in EnrichDocuments }
    \cup { HttpResult(FALSE, 500, FALSE, FALSE, ZeroResponse) }

\* the state once the three loads have succeeded on a listing of one
\* identifier and the dispatcher has launched its worker (lines 118-136)
EnrichInit ==
    /\ exit = "running"
    /\ pcMain = "readCities"
    /\ insees = << Code(1) >>
    /\ departements \in WideDepartementTables
    /\ regions \in WideRegionTables
    /\ loadErr = {}
    /\ dpc = "loop"
    /\ dnext = 2
    /\ wg = 1
    /\ pc = << "get" >>
    /\ resp = << NoResponse >>
    /\ sent = << [commune |-> 0, error |-> 0] >>
    /\ emitted = << <<>> >>
    /\ communeCh = <<>>
    /\ errorCh = <<>>
    /\ communeClosed = 0
    /\ errorClosed = 0
    /\ communeNil = FALSE
    /\ errorNil = FALSE
    /\ communes = <<>>
    /\ communeCounter = 0
    /\ errorLog = <<>>
    /\ progress = <<>>
    /\ outFile = <<>>

EnrichNext ==
    \/ HttpGetFrom(1, EnrichResponses)
    \/ SendError(1)
    \/ SendCommune(1)
    \/ WgDone(1)
    \/ Crash

EnrichSpec == EnrichInit /\ [][EnrichNext]_vars

(***************************************************************************)
(* Vocabulary of the properties                                            *)
(***************************************************************************)
\* readCities has returned: communes is the sequence it returned
Returned == pcMain \in {"writeIntoJSON", "done"}

\* the record has a first postal code that denotes an integer
ValidCode(c) == Len(c.CodesPostaux) > 0 /\ ~ParseInt(c.CodesPostaux[1]).err

\* the integer its first postal code denotes
NumericValue(c) == ParseInt(c.CodesPostaux[1]).val

\* worker i is over: it has returned, or it has panicked (its deferred
\* wg.Done() has run either way)
Ended(i) == pc[i] \in {"done", "panicking"}

\* the messages worker i has sent, both channels together
Sends(i) == sent[i].commune + sent[i].error

RECURSIVE SumSends(_)
SumSends(n) == IF n = 0 THEN 0 ELSE Sends(n) + SumSends(n - 1)

\* the fan-out is complete: every identifier's worker was launched and the
\* barrier is back to zero
FanOutComplete == dpc # "notStarted" /\ dnext > N /\ wg = 0

\* the lookup did not end in a successful, decodable response: a transport
\* error, a status other than 200, a body that cannot be read or decoded
LookupUnsuccessful(r) == r.err \/ r.status # 200 \/ r.readErr \/ r.decodeErr

\* the identifiers whose detail lookup has failed
F == { i \in 1..N : pc[i] \notin {"idle", "get"} /\ LookupUnsuccessful(resp[i]) }

\* the positions of the returned sequence that hold a record of identifier i
RecordsOf(i) == { k \in 1..Len(communes) : communes[k].Nom = insees[i] }

\* the lines of the error log equal to identifier i
LinesOf(i) == { k \in 1..Len(errorLog) : errorLog[k] = insees[i] }

(***************************************************************************)
(* Properties of the pipeline                                              *)
(***************************************************************************)
\* C1: every worker that is over has sent exactly one message, on one of
\* the two channels, never none and never one on each; so when the fan-out
\* is complete the messages sent number N.
C1_ExactlyOneMessage ==
    /\ \A i \in 1..N : Sends(i) <= 1
    /\ \A i \in 1..N : Ended(i) => Sends(i) = 1
    /\ FanOutComplete => SumSends(N) = N

\* C2: when readCities has returned, the result set holds N - |F| records,
\* exactly one for each identifier not in F and none for one in F, and the
\* error log (empty at the start) holds |F| lines, exactly one for each
\* identifier in F, equal to it.
C2_EndToEnd ==
    Returned =>
        /\ Len(communes) = N - Cardinality(F)
        /\ \A i \in 1..N : Cardinality(RecordsOf(i)) = (IF i \in F THEN 0 ELSE 1)
        /\ Len(errorLog) = Cardinality(F)
        /\ \A i \in 1..N : Cardinality(LinesOf(i)) = (IF i \in F THEN 1 ELSE 0)

\* C3: each channel is closed at most once, and a channel is closed only
\* when all N workers have been launched, have each sent their message and
\* have decremented the barrier; the barrier's wait is passed only with no
\* launched worker still running.
C3_CloseAfterAllSends ==
    /\ errorClosed <= 1 /\ communeClosed <= 1
    /\ (errorClosed > 0 \/ communeClosed > 0) =>
           \A i \in 1..N : Sends(i) = 1 /\ pc[i] = "done"
    /\ dpc \in {"closeErrorCh", "closeCommuneCh", "done"} =>
           \A i \in 1..N : pc[i] = "done"

\* C4: with every lookup returning and every write to the error log
\* succeeding, the pipeline, once the dispatcher is started, comes to a stop
\* only after the finalizer has run: main is past readCities, both channels
\* are closed and no worker is left blocked.
C4_StopsOnlyAfterFinalizer ==
    (dpc # "notStarted" /\ ~ENABLED LiveNext) =>
        /\ pcMain \in {"writeIntoJSON", "done"}
        /\ errorClosed = 1 /\ communeClosed = 1
        /\ \A i \in 1..N : pc[i] = "done"

\* C8: once the three loads have succeeded, the process does not end with a
\* fatal error while readCities is collecting: no Failure and no call of
\* logErrors aborts the run.
C8_FailureNeverAborts == pcMain = "readCities" => exit # "fatal"

\* C9: a worker whose lookup ended in a transport error, a status other
\* than success, a body-read error or a decode error sends one Failure
\* carrying the identifier and no record; a record is sent only for a
\* successful, decodable response.
C9_UnsuccessfulLookupFails ==
    \A i \in 1..N :
        /\ (pc[i] \in {"return", "done"} /\ LookupUnsuccessful(resp[i])) =>
               sent[i] = [commune |-> 0, error |-> 1]
        /\ sent[i].commune > 0 => ~LookupUnsuccessful(resp[i])
        /\ \A k \in 1..Len(errorCh) :
               \E j \in 1..N : errorCh[k] = [msg |-> insees[j]]

\* C10: if one of the three loads fails, the process has ended with a fatal
\* error before the dispatcher is started: no worker is launched, nothing
\* is sent, readCities does not run and no file is written; and a worker is
\* launched only when all three loads have returned without error.
C10_LoadsBeforeFanOut ==
    /\ loadErr # {} =>
           /\ exit = "fatal"
           /\ dpc = "notStarted"
           /\ \A i \in 1..N : pc[i] = "idle" /\ Sends(i) = 0
           /\ communeCh = <<>> /\ errorCh = <<>>
           /\ pcMain \notin {"readCities", "writeIntoJSON", "done"}
           /\ communes = <<>> /\ errorLog = <<>> /\ outFile = <<>>
    /\ (dpc # "notStarted" \/ \E i \in 1..N : pc[i] # "idle") =>
           /\ loadErr = {}
           /\ pcMain \in {"readCities", "writeIntoJSON", "done"}
           /\ departements \in DepartementTables /\ regions \in RegionTables

\* C10, its case: a load has failed and the process has ended
C10_Witness == loadErr # {} /\ exit = "fatal" /\ N > 0

(***************************************************************************)
(* Properties of the finalizer                                             *)
(***************************************************************************)
\* C5: in the sequence readCities returned, the records with a numeric
\* first postal code are in the order of their numeric values: of two of
\* them with different values, the one of the lower value comes first.
C5_OrderingLaw ==
    Returned =>
        \A i, j \in 1..Len(communes) :
            (i < j /\ ValidCode(communes[i]) /\ ValidCode(communes[j])) =>
                NumericValue(communes[i]) <= NumericValue(communes[j])

\* C6: in the sequence readCities returned, every record without a numeric
\* first postal code comes before every record with one.
C6_MalformedFirst ==
    Returned =>
        \A i, j \in 1..Len(communes) :
            (~ValidCode(communes[i]) /\ ValidCode(communes[j])) => i < j

\* the records the workers have sent, in the order of the listing
RECURSIVE SentInListingOrder(_)
SentInListingOrder(n) ==
    IF n = 0 THEN <<>>
    ELSE IF sent[n].commune > 0
         THEN Append(SentInListingOrder(n - 1),
                     BuildCommune(resp[n], departements, regions))
         ELSE SentInListingOrder(n - 1)

\* C7: the sequence readCities returned is the same for every interleaving:
\* it is the one returned when the records arrive in the order of the
\* listing.
C7_OrderIndependentOfArrival ==
    (Returned /\ Len(communes) = Len(SentInListingOrder(N))) =>
        communes = SliceStable(SentInListingOrder(N))

(***************************************************************************)
(* Vocabulary of the worker's properties                                   *)
(***************************************************************************)
\* the message is an Enriched Record (a Commune), not a Failure
IsRecord(m) == "Nom" \in DOMAIN m

\* the lookup of worker i has returned a response that was read and decoded
Decoded(i) == pc[i] \notin {"idle", "get"} /\ ~LookupFails(resp[i])

\* the names the table gives to code
NamesOf(table, code) ==
    { table[k].Nom : k \in { j \in 1..Len(table) : table[j].Code = code } }

\* nom is what resolving code against table must give: the name of an entry
\* of that code if there is one, nothing otherwise and for an empty code
Resolves(nom, table, code) ==
    IF code = <<>> \/ NamesOf(table, code) = {}
    THEN nom = <<>>
    ELSE nom \in NamesOf(table, code)

\* C11: reference resolution.  Whatever the tables, a worker whose detail
\* response was decoded ends having emitted an Enriched Record and no
\* Failure; the record's department name is the name of a table entry of the
\* response's department code if there is one and is absent otherwise (and
\* for an empty code), and the same for the region.
C11_ReferenceResolution ==
    \A i \in 1..N :
        (Decoded(i) /\ Ended(i)) =>
            /\ Len(emitted[i]) = 1
            /\ IsRecord(emitted[i][1])
            /\ Resolves(emitted[i][1].Departement, departements,
                        resp[i].cs.CodeDepartement)
            /\ Resolves(emitted[i][1].Region, regions, resp[i].cs.CodeRegion)

\* the string "Point"
Point == <<"P", "o", "i", "n", "t">>

\* C12: coordinate transform.  A record emitted for a decoded response whose
\* centroid is the pair [lon, lat] has location kind "Point" and coordinates
\* exactly [lat, lon]; a record emitted for a response without centroid has
\* no coordinates.
C12_CoordinateTransform ==
    \A i \in 1..N : \A k \in 1..Len(emitted[i]) :
        Decoded(i) =>
            LET coords == resp[i].cs.Coordinates
                loc == emitted[i][k].Location
            IN /\ Len(coords) = 2 =>
                    /\ loc.Type = Point
                    /\ loc.Coordinates = <<coords[2], coords[1]>>
               /\ Len(coords) = 0 => loc.Coordinates = <<>>

\* a record was emitted for the centroid [lon = 2, lat = 48] and carries
\* [48, 2]
C12_Witness ==
    \E i \in 1..N :
        /\ Decoded(i) /\ resp[i].cs.Coordinates = <<2, 48>>
        /\ Len(emitted[i]) = 1
        /\ emitted[i][1].Location = [Type |-> Point, Coordinates |-> <<48, 2>>]

(***************************************************************************)
(* Vocabulary of the collector's properties                                *)
(***************************************************************************)
\* the collector is in the loop of readCities
InLoop == exit = "running" /\ pcMain = "readCities"

\* the step takes readCities out of its loop
LoopExits == pcMain = "readCities" /\ pcMain' # "readCities"

\* C13: the loop of readCities exits only after both channels were observed
\* closed, in either order; a channel is observed closed only once it is
\* closed and drained, and from then on it stays out of the select and
\* nothing more is received from it, while every message left in the other
\* channel can still be received and has been received when the loop exits;
\* the accumulated sequence is only appended to until the loop has exited,
\* and the sort happens at the exit.
C13_LoopExit ==
    /\ [](Returned => communeNil /\ errorNil)
    /\ [](communeNil => communeClosed > 0 /\ communeCh = <<>>)
    /\ [](errorNil => errorClosed > 0 /\ errorCh = <<>>)
    /\ []((InLoop /\ communeNil /\ errorCh # <<>>) => ENABLED RecvError)
    /\ []((InLoop /\ errorNil /\ communeCh # <<>>) => ENABLED RecvCommune)
    /\ [][/\ communeNil => communeNil' /\ communeCh' = communeCh
          /\ errorNil => errorNil' /\ errorCh' = errorCh /\ errorLog' = errorLog
          /\ LoopExits => communeNil /\ errorNil
          /\ ~LoopExits => \/ communes' = communes
                           \/ /\ ~communeNil /\ communeCh # <<>>
                              /\ communes' = Append(communes, Head(communeCh))]_vars

\* the result channel was observed closed first and a Failure is still
\* waiting in the error channel
C13_Witness == InLoop /\ communeNil /\ ~errorNil /\ errorCh # <<>>

\* the detail lookup of worker i has not returned (the worker is still to be
\* launched, or it is inside http.Get)
LookupPending(i) == pc[i] \in {"idle", "get"}

\* wg.Wait() has returned in the dispatcher
BarrierReleased == dpc \in {"closeErrorCh", "closeCommuneCh", "done"}

\* C14: no cancellation, no timeout.  As long as the detail lookup of some
\* worker has not returned, the barrier is not released, neither channel is
\* closed, readCities has not left its loop and nothing is written, whatever
\* the other workers have done; a lookup that never returns therefore holds
\* all of this for ever.
C14_HungLookupStallsPipeline ==
    (\E i \in 1..N : LookupPending(i)) =>
        /\ wg > 0 \/ dnext <= N
        /\ ~BarrierReleased
        /\ errorClosed = 0 /\ communeClosed = 0
        /\ ~communeNil /\ ~errorNil
        /\ ~Returned
        /\ outFile = <<>>

\* every worker was launched, one is inside http.Get, every other one has
\* returned and its message was collected, and the dispatcher is held at
\* wg.Wait()
C14_Witness ==
    /\ N = 2 /\ dnext > N /\ exit = "running"
    /\ \E i \in 1..N :
         /\ pc[i] = "get"
         /\ \A j \in (1..N) \ {i} : pc[j] = "done" /\ Sends(j) = 1
    /\ communeCh = <<>> /\ errorCh = <<>>
    /\ Len(communes) + Len(errorLog) = 1
    /\ dpc = "loop" /\ wg = 1

(***************************************************************************)
(* Vocabulary of the finalizer's properties                                *)
(***************************************************************************)
\* the rank at which the record of name Code(k) was accumulated when the
\* k-th record received is the one of the k-th identifier: k
Arrival(c) == DigitVal(c.Nom[2]) * 10 + DigitVal(c.Nom[3])

\* C15: in the sequence readCities returned, the records without a numeric
\* first postal code are in the order in which they were accumulated.
C15_MalformedKeepArrivalOrder ==
    Returned =>
        \A p, q \in 1..Len(communes) :
            (p < q /\ ~ValidCode(communes[p]) /\ ~ValidCode(communes[q])) =>
                Arrival(communes[p]) < Arrival(communes[q])

\* C16: the comparator of the sort is a consistent ordering on the
\* accumulated records: never both a less than b and b less than a, never a
\* less than a, and of two records without a numeric first postal code
\* neither is less than the other.
C16_ComparatorConsistent ==
    \A i, j \in 0..(Len(communes) - 1) :
        /\ ~(Less(communes, i, j) /\ Less(communes, j, i))
        /\ ~Less(communes, i, i)
        /\ (~ValidCode(communes[i + 1]) /\ ~ValidCode(communes[j + 1])) =>
               ~Less(communes, i, j)

\* the record's first postal code is a non-empty string of decimal digits
DigitCode(c) ==
    /\ Len(c.CodesPostaux) > 0
    /\ Len(c.CodesPostaux[1]) > 0
    /\ \A k \in 1..Len(c.CodesPostaux[1]) : IsDigit(c.CodesPostaux[1][k])

\* the integer that string denotes
Denoted(c) == DecimalValue(c.CodesPostaux[1], 0)

\* C17: every record whose first postal code is a non-empty string of
\* decimal digits, all-zero codes such as "0" included, is taken by the
\* comparator as well-formed with the integer its code denotes as rank: of
\* two such records the comparator reports the first less than the second
\* exactly when its integer is the smaller.
C17_DigitCodesRankedByValue ==
    \A i, j \in 0..(Len(communes) - 1) :
        (DigitCode(communes[i + 1]) /\ DigitCode(communes[j + 1])) =>
            /\ ~Malformed(communes[i + 1])
            /\ FirstCode(communes[i + 1]).val = Denoted(communes[i + 1])
            /\ Less(communes, i, j) <=> Denoted(communes[i + 1]) < Denoted(communes[j + 1])

(***************************************************************************)
(* The worker's outcome as a function                                      *)
(***************************************************************************)
\* what geoAPIGouvFr sends for the identifier id when its lookup returns r
\* and the tables are deps and regs
Outcome(id, r, deps, regs) ==
    IF LookupFails(r) THEN Errorf(id) ELSE BuildCommune(r, deps, regs)

C19_CoordinatesReadInBounds ==
    \A i \in 1..N :
        Decoded(i) =>
            /\ ~IndexPanics(resp[i])
            /\ pc[i] # "panicking" /\ exit # "panic"
            /\ Ended(i) => Len(emitted[i]) = 1 /\ IsRecord(emitted[i][1])
            /\ \A k \in 1..Len(emitted[i]) :
                   emitted[i][k].Location.Coordinates # <<>> =>
                       Len(resp[i].cs.Coordinates) >= 2

(***************************************************************************)
(* The pipeline from its start, and the finalizer from every accumulated   *)
(* sequence of SortInit                                                    *)
(***************************************************************************)
FinalInit == Init \/ SortInit

FinalSpec == FinalInit /\ [][Next]_vars

\* how many times x occurs in s
RECURSIVE Count(_, _)
Count(x, s) == IF s = <<>> THEN 0 ELSE (IF Head(s) = x THEN 1 ELSE 0) + Count(x, Tail(s))

\* s and t hold the same records, each as many times
SameMultiset(s, t) ==
    /\ Len(s) = Len(t)
    /\ \A k \in 1..Len(s) : Count(s[k], s) = Count(s[k], t)

\* the step is a receive on the error channel (a Failure, or the close) or a
\* tick
ErrorOrTickStep ==
    \/ Len(errorCh') < Len(errorCh)
    \/ errorNil' # errorNil
    \/ errorLog' # errorLog
    \/ progress' # progress

\* C20: finalization only reorders.  The step that takes readCities out of
\* its loop leaves in communes a permutation of the accumulated sequence
\* (same records, each as many times), also when the comparator is
\* inconsistent on it, and the sequence does not change afterwards; a
\* receive of a Failure or of the close of the error channel and a tick
\* leave the accumulated sequence and the counter as they are; the counter
\* is always the number of accumulated records.
C20_FinalizationOnlyReorders ==
    /\ [](communeCounter = Len(communes))
    /\ [][/\ LoopExits => SameMultiset(communes, communes')
          /\ Returned => communes' = communes
          /\ ErrorOrTickStep => communes' = communes /\ communeCounter' = communeCounter
         ]_vars

\* readCities has returned two records without postal codes in the reverse
\* of the order in which they were accumulated
C20_Witness ==
    /\ Returned /\ Len(communes) = 2 /\ communeCounter = 2
    /\ communes[1].Nom = Code(2) /\ communes[2].Nom = Code(1)
    /\ Malformed(communes[1]) /\ Malformed(communes[2])

=============================================================================
